---- MODULE Spec2Model ----
(***************************************************************************)
(* The e-pharmacy backend (src/app) as a state machine over its database   *)
(* tables.  Every request handler is one action: it reads the committed    *)
(* tables, runs the handler's checks in source order and either commits    *)
(* its writes or leaves the tables as they were.  Money is kept in integer *)
(* minor units (1/100 of the currency unit, the scale of DECIMAL(10, 2));  *)
(* the clock counts seconds.                                               *)
(***************************************************************************)
EXTENDS Integers, Sequences, FiniteSets, TLC

\* ------------------------------------------------------------------------
\* Bounds of the model
\* ------------------------------------------------------------------------
NumCustomers == 2
MaxQty == 2
MaxNegQty == 1
MaxOrders == 2
MaxCartItemId == 2
MaxNow == 1
MaxPrescriptions == 1
MaxPayments == 3
MaxStock == 3
NegativeOrderQty == 40
MaxAuthRows == 1
MaxRegistrations == 3
NumRequests == 2

\* ------------------------------------------------------------------------
\* Program constants
\* ------------------------------------------------------------------------
ShippingCharges == 5000
GstPercent == 18
DefaultCancellationFeePercentage == 1000
SecondsPerHour == 3600

\* ------------------------------------------------------------------------
\* Fixed rows: customers, their addresses, the product catalogue
\* ------------------------------------------------------------------------
Customers == 1..NumCustomers

\* customer_addresses: address a belongs to customer CustomerAddress[a]
CustomerAddress == [a \in 1..NumCustomers |-> a]

\* products: prices in minor units
Product ==
  << [product_id |-> 1, price |-> 125,  requires_prescription |-> FALSE, is_active |-> TRUE],
     [product_id |-> 2, price |-> 1000, requires_prescription |-> TRUE,  is_active |-> TRUE] >>

ProductIds == 1..Len(Product)

Quantities == (0 - MaxNegQty)..MaxQty

OrderTypeNames == {"delivery", "pickup"}
OrderTypeInputs == {"delivery", "express"}

PrescriptionStatus == {"pending", "approved", "rejected"}

valid_statuses ==
  {"pending", "confirmed", "processing", "ready", "shipped", "delivered", "cancelled"}

\* mutant: every status can be cancelled
cancellable_any == valid_statuses

cancellable_statuses == {"pending", "confirmed"}

\* a nullable column holds Null or Some(value)
Null == << >>

Some(v) == << v >>

VARIABLES
  sessions,           \* the database session of every request in flight
  backups,            \* sequence of Backup rows
  restores,           \* sequence of Restore rows
  files,              \* the paths at which a file exists
  customers,          \* sequence of Customer rows, index = customer_id
  now,                \* datetime.now(), in seconds
  cart_items,         \* sequence of CartItem rows, ascending cart_item_id
  next_cart_item_id,  \* autoincrement counter of cart_items
  inventory,          \* sequence of PharmacyInventory rows, index = inventory_id
  orders,             \* sequence of Order rows, index = order_id
  order_items,        \* sequence of OrderItem rows, index = order_item_id
  prescriptions,      \* sequence of Prescription rows, index = prescription_id
  payments,           \* sequence of Payment rows, index = payment_id
  refunds,            \* sequence of Refund rows, index = refund_id
  notifications,      \* sequence of Notification rows, index = notification_id
  had_approved,       \* history: customers that ever had an approved prescription
  resp                \* the last request and its response

\* the backup and restore tables and the backup directory
backup_vars == << backups, restores, files >>

vars == << sessions, backup_vars, customers, now, cart_items, next_cart_item_id, inventory, orders, order_items,
           prescriptions, payments, refunds, notifications, had_approved, resp >>

\* ------------------------------------------------------------------------
\* Helpers
\* ------------------------------------------------------------------------
\* Query(...).first() over the primary keys of the matching rows: the lowest
\* key, 0 if none
First(keys) ==
  IF keys = {} THEN 0 ELSE CHOOSE i \in keys : \A j \in keys : i <= j

RECURSIVE SumSeq(_)
SumSeq(s) == IF s = << >> THEN 0 ELSE Head(s) + SumSeq(Tail(s))

\* A float written to a DECIMAL(10, 2) column is rounded to the nearest minor
\* unit.  num/den is the exact value in minor units; the binary float next to
\* an exact tie lies on either side of it, so a tie rounds either way.
store_decimal(num, den) ==
  LET q == num \div den
  IN  { r \in {q, q + 1} : 2 * (IF r * den >= num THEN r * den - num ELSE num - r * den) <= den }

\* ------------------------------------------------------------------------
\* The tables a handler works on
\* ------------------------------------------------------------------------
DB == [cart_items |-> cart_items, next_cart_item_id |-> next_cart_item_id,
       inventory |-> inventory, orders |-> orders, order_items |-> order_items]

\* quantity_in_stock of every batch, by inventory_id
Stock(inv) == [i \in 1..Len(inv) |-> inv[i].quantity_in_stock]

\* the last request: its handler, its caller, the status code and detail of its
\* response, the order it names or creates, the shipping address a create_order
\* names and, for a created order, the stock the request found
Response(op, customer, code, detail) ==
  [op |-> op, customer |-> customer, code |-> code, detail |-> detail,
   order_id |-> 0, shipping_address_id |-> 0, stock_before |-> << >>]

NoResponse == Response("none", 0, 0, "")

\* The handlers are plain def functions, which the framework runs in worker
\* threads, each with the Session its get_db dependency yields.  A session
\* keeps the rows it has loaded (its identity map), the inventory rows it has
\* modified, and the rows it has added; nothing is visible to other sessions
\* before its commit.
Requests == 1..NumRequests

Idle ==
  [pc |-> "idle", customer |-> 0, order_id |-> 0, order |-> Null, items |-> << >>,
   loaded |-> << >>, dirty |-> {}]

NoSessions == [r \in Requests |-> Idle]

\* ------------------------------------------------------------------------
\* Init
\* ------------------------------------------------------------------------
\* customers: the customers that registered, then the admin the database is
\* seeded with; the email is a number
InitialCustomers ==
  [i \in 1..(NumCustomers + 1) |->
     [email |-> i, role |-> IF i <= NumCustomers THEN "customer" ELSE "admin"]]

InitialInventory ==
  << [product_id |-> 1, quantity_in_stock |-> 1, is_available |-> TRUE],
     [product_id |-> 1, quantity_in_stock |-> 2, is_available |-> TRUE],
     [product_id |-> 2, quantity_in_stock |-> 2, is_available |-> TRUE] >>

Init ==
  /\ sessions = NoSessions
  /\ backups = << >> /\ restores = << >> /\ files = {}
  /\ customers = InitialCustomers
  /\ now = 0
  /\ cart_items = << >>
  /\ next_cart_item_id = 1
  /\ inventory = InitialInventory
  /\ orders = << >>
  /\ order_items = << >>
  /\ prescriptions = << >>
  /\ payments = << >>
  /\ refunds = << >>
  /\ notifications = << >>
  /\ had_approved = {}
  /\ resp = NoResponse

\* ------------------------------------------------------------------------
\* cart.py
\* ------------------------------------------------------------------------
\* add_to_cart
add_to_cart(db, c, product_id, quantity) ==
  LET product == IF product_id \in ProductIds /\ Product[product_id].is_active
                 THEN product_id ELSE 0
      inv == First({ key \in 1..Len(db.inventory) :
                     LET r == db.inventory[key]
                     IN  r.product_id = product_id /\ r.is_available
                         /\ r.quantity_in_stock >= quantity })
      existing == First({ key \in 1..Len(db.cart_items) :
                          LET r == db.cart_items[key]
                          IN  r.customer_id = c /\ r.product_id = product_id })
  IN
  IF product = 0 THEN
    [db |-> db, code |-> 404, detail |-> "Product not found"]
  ELSE IF inv = 0 THEN
    [db |-> db, code |-> 400,
     detail |-> "Product is out of stock or insufficient quantity available"]
  ELSE IF existing # 0 THEN
    LET new_quantity == db.cart_items[existing].quantity + quantity IN
    IF new_quantity > db.inventory[inv].quantity_in_stock THEN
      [db |-> db, code |-> 400, detail |-> "Only N items available in stock"]
    ELSE
      [db |-> [db EXCEPT !.cart_items[existing].quantity = new_quantity],
       code |-> 200, detail |-> "updated"]
  ELSE
    [db |-> [db EXCEPT
               !.cart_items = Append(@, [cart_item_id |-> db.next_cart_item_id,
                                         customer_id |-> c,
                                         product_id |-> product_id,
                                         quantity |-> quantity]),
               !.next_cart_item_id = @ + 1],
     code |-> 200, detail |-> "created"]

\* update_cart_item
update_cart_item(db, c, cart_item_id, quantity) ==
  LET item == First({ key \in 1..Len(db.cart_items) :
                      LET r == db.cart_items[key]
                      IN  r.cart_item_id = cart_item_id /\ r.customer_id = c })
  IN
  IF item = 0 THEN
    [db |-> db, code |-> 404, detail |-> "Cart item not found"]
  ELSE
    LET inv == First({ key \in 1..Len(db.inventory) :
                       LET r == db.inventory[key]
                       IN  r.product_id = db.cart_items[item].product_id
                           /\ r.is_available
                           /\ r.quantity_in_stock >= quantity })
    IN
    IF inv = 0 THEN
      [db |-> db, code |-> 400, detail |-> "Insufficient stock available"]
    ELSE
      [db |-> [db EXCEPT !.cart_items[item].quantity = quantity],
       code |-> 200, detail |-> "updated"]

\* ------------------------------------------------------------------------
\* customer_orders.py
\* ------------------------------------------------------------------------
\* the cart rows of customer c, ascending cart_item_id
CartOf(db, c) == SelectSeq(db.cart_items, LAMBDA r : r.customer_id = c)

\* mutant: any prescription of the customer counts
any_prescription(c) ==
  First({ key \in 1..Len(prescriptions) : prescriptions[key].customer_id = c }) # 0

\* customer c has a prescription with status approved
approved_prescription(c) ==
  First({ key \in 1..Len(prescriptions) :
            LET r == prescriptions[key]
            IN  r.customer_id = c /\ r.status = "approved" }) # 0

\* create_order, lines 117-131: the products of the cart that need a
\* prescription the customer does not have
prescription_required_items(items, c) ==
  SelectSeq(items, LAMBDA it : /\ it.product_id \in ProductIds
                               /\ Product[it.product_id].requires_prescription
                               /\ ~approved_prescription(c))

\* the batch create_order reads for a cart item: first available batch
available_batch(inv, product_id) ==
  First({ key \in 1..Len(inv) :
            inv[key].product_id = product_id /\ inv[key].is_available })

\* create_order, lines 143-165: the error the inventory loop raises for one
\* cart item, "" if it passes
item_error(db, it) ==
  IF it.product_id \notin ProductIds THEN "Product not found for cart item"
  ELSE IF available_batch(db.inventory, it.product_id) = 0 THEN "is out of stock"
  ELSE IF db.inventory[available_batch(db.inventory, it.product_id)].quantity_in_stock
            < it.quantity
       THEN "Only N items available"
  ELSE ""

\* the first cart item the inventory loop rejects, 0 if none
first_rejected(db, items) ==
  First({ key \in 1..Len(items) : item_error(db, items[key]) # "" })

\* create_order, lines 167-176
order_item_data(it) ==
  [product_id |-> it.product_id,
   quantity |-> it.quantity,
   unit_price |-> Product[it.product_id].price,
   subtotal |-> Product[it.product_id].price * it.quantity,
   requires_prescription |-> Product[it.product_id].requires_prescription]

order_items_data(items) == [i \in 1..Len(items) |-> order_item_data(items[i])]

\* create_order, line 188: ORD + strftime('%Y%m%d%H%M%S') + customer_id
order_number(t, c) == << t, c >>

\* db.flush() of the new order fails on an order_type outside the enum, on a
\* shipping_address_id that is no address row, and on a duplicate order_number
flush_fails(db, new_order) ==
  \/ new_order.order_type \notin OrderTypeNames
  \/ new_order.shipping_address_id \notin DOMAIN CustomerAddress
  \/ \E i \in 1..Len(db.orders) : db.orders[i].order_number = new_order.order_number

\* create_order, lines 224-234: take the quantity from the first available
\* batch of the product and mark the batch unavailable when it is used up
decrement_inventory(inv, product_id, quantity) ==
  LET b == available_batch(inv, product_id) IN
  IF b = 0 THEN inv
  ELSE LET left == inv[b].quantity_in_stock - quantity IN
       [inv EXCEPT ![b].quantity_in_stock = left,
                   ![b].is_available = IF left <= 0 THEN FALSE ELSE @]

RECURSIVE write_order_items(_, _, _)
\* create_order, lines 211-234: one OrderItem and one inventory update per item
write_order_items(db, order_id, data) ==
  IF data = << >> THEN db
  ELSE LET d == Head(data)
           row == [order_id |-> order_id,
                   product_id |-> d.product_id,
                   quantity |-> d.quantity,
                   unit_price |-> d.unit_price,
                   subtotal |-> d.subtotal,
                   requires_prescription |-> d.requires_prescription,
                   prescription_verified |-> ~d.requires_prescription]
       IN write_order_items(
            [db EXCEPT !.order_items = Append(@, row),
                       !.inventory = decrement_inventory(@, d.product_id, d.quantity)],
            order_id, Tail(data))

\* mutant: the delete is not filtered by customer
clear_cart_of_everyone(db, c) == [db EXCEPT !.cart_items = << >>]

\* create_order, line 237
clear_cart(db, c) ==
  [db EXCEPT !.cart_items = SelectSeq(@, LAMBDA r : r.customer_id # c)]

\* mutant: the except clause keeps what the session holds
rollback_keeps_session(committed, session) == session

\* db.rollback() in the except clauses: the session's pending rows are dropped
rollback(committed, session) == committed

\* create_order; tax and final are the values the DECIMAL columns keep of
\* total_amount * 0.18 and total_amount + 50.0 + tax_amount
create_order(db, c, shipping_address_id, order_type, tax, final) ==
  LET items == CartOf(db, c)
      data == order_items_data(items)
      total_amount == SumSeq([i \in 1..Len(data) |-> data[i].subtotal])
      new_order == [order_number |-> order_number(now, c),
                    customer_id |-> c,
                    total_amount |-> total_amount,
                    shipping_charges |-> ShippingCharges,
                    tax_amount |-> tax,
                    discount_amount |-> 0,
                    final_amount |-> final,
                    order_type |-> order_type,
                    shipping_address_id |-> shipping_address_id,
                    status |-> "pending",
                    cancellation_fee_percentage |-> Some(DefaultCancellationFeePercentage),
                    cancellation_reason |-> Null,
                    cancelled_at |-> Null,
                    ready_at |-> Null,
                    created_at |-> now,
                    updated_at |-> now]
      added == [db EXCEPT !.orders = Append(@, new_order)]
  IN
  IF shipping_address_id # 0
     /\ ~(shipping_address_id \in DOMAIN CustomerAddress
          /\ CustomerAddress[shipping_address_id] = c) THEN
    [db |-> rollback(db, db), code |-> 400, detail |-> "Invalid shipping address"]
  ELSE IF items = << >> THEN
    [db |-> rollback(db, db), code |-> 400, detail |-> "Cart is empty"]
  ELSE IF prescription_required_items(items, c) # << >> THEN
    [db |-> rollback(db, db), code |-> 400, detail |-> "Prescription required"]
  ELSE IF first_rejected(db, items) # 0 THEN
    [db |-> rollback(db, db), code |-> 400,
     detail |-> item_error(db, items[first_rejected(db, items)])]
  ELSE IF flush_fails(db, new_order) THEN
    [db |-> rollback(db, added), code |-> 500, detail |-> "Order creation failed"]
  ELSE
    [db |-> clear_cart(write_order_items(added, Len(added.orders), data), c),
     code |-> 201, detail |-> "Order created successfully"]

\* the tax_amount and final_amount columns of an order with this total
\* create_order, lines 143-165, as its session runs it: the batch read for each
\* cart item stays in the session's identity map
loaded_batches(inv, items) ==
  [b \in 1..Len(inv) |->
     IF \E i \in 1..Len(items) : available_batch(inv, items[i].product_id) = b
     THEN Some(inv[b]) ELSE Null]

\* create_order, lines 98-222, in a session: every read and check is made on
\* the committed tables; the new order and its items are held by the session
begin_create_order(db, c, shipping_address_id, order_type, tax, final) ==
  LET r == create_order(db, c, shipping_address_id, order_type, tax, final) IN
  IF r.code # 201 THEN
    [session |-> [Idle EXCEPT !.pc = "done", !.customer = c],
     code |-> r.code, detail |-> r.detail]
  ELSE
    [session |-> [pc |-> "checked", customer |-> c, order_id |-> 0,
                  order |-> Some(r.db.orders[Len(r.db.orders)]),
                  items |-> SubSeq(r.db.order_items, Len(db.order_items) + 1,
                                   Len(r.db.order_items)),
                  loaded |-> loaded_batches(db.inventory, CartOf(db, c)),
                  dirty |-> {}],
     code |-> 0, detail |-> ""]

RECURSIVE update_inventory(_, _, _)
\* create_order, lines 224-234, in a session: the query filters the committed
\* rows (and the session's own changes) by is_available; for a batch the
\* session has loaded, the ORM returns the loaded object with the attributes
\* read before, and quantity_in_stock -= quantity is computed from them
update_inventory(inv, s, items) ==
  IF items = << >> THEN s
  ELSE LET view == [b \in 1..Len(inv) |->
                      IF b \in s.dirty THEN s.loaded[b][1] ELSE inv[b]]
           b == available_batch(view, Head(items).product_id)
       IN  IF b = 0 THEN update_inventory(inv, s, Tail(items))
           ELSE LET obj == IF s.loaded[b] # Null THEN s.loaded[b][1] ELSE inv[b]
                    left == obj.quantity_in_stock - Head(items).quantity
                IN  update_inventory(
                      inv,
                      [s EXCEPT !.loaded[b] =
                                  Some([obj EXCEPT
                                          !.quantity_in_stock = left,
                                          !.is_available = IF left <= 0 THEN FALSE ELSE @]),
                                !.dirty = @ \cup {b}],
                      Tail(items))

\* the UPDATE a flush issues for a modified batch sets the columns the session
\* changed to the values the session computed
flush_inventory(inv, s) ==
  [b \in 1..Len(inv) |->
     IF b \in s.dirty
     THEN [inv[b] EXCEPT !.quantity_in_stock = s.loaded[b][1].quantity_in_stock,
                         !.is_available = IF s.loaded[b][1].is_available THEN @ ELSE FALSE]
     ELSE inv[b]]

\* create_order, lines 237-240: the cart delete flushes the session and the
\* commit publishes the order, its items and the inventory updates
commit_order(db, s) ==
  LET order_id == Len(db.orders) + 1 IN
  clear_cart([db EXCEPT
                !.orders = Append(@, s.order[1]),
                !.order_items = @ \o [i \in 1..Len(s.items) |->
                                        [s.items[i] EXCEPT !.order_id = order_id]],
                !.inventory = flush_inventory(@, s)],
             s.customer)

tax_amounts(total_amount) == store_decimal(GstPercent * total_amount, 100)

final_amounts(total_amount) ==
  store_decimal((100 + GstPercent) * total_amount + 100 * ShippingCharges, 100)

cart_total(db, c) ==
  LET data == order_items_data(SelectSeq(CartOf(db, c),
                                         LAMBDA it : it.product_id \in ProductIds))
  IN  SumSeq([i \in 1..Len(data) |-> data[i].subtotal])

RECURSIVE restore_inventory(_, _)
\* cancel_my_order, lines 294-302: add each item's quantity to the first
\* batch of its product
restore_inventory(inv, items) ==
  IF items = << >> THEN inv
  ELSE LET it == Head(items)
           b == First({ key \in 1..Len(inv) : inv[key].product_id = it.product_id })
       IN restore_inventory(
            IF b = 0 THEN inv
            ELSE [inv EXCEPT ![b].quantity_in_stock = @ + it.quantity,
                             ![b].is_available = TRUE],
            Tail(items))

\* cancel_my_order
cancel_my_order(db, c, order_id, reason) ==
  IF ~(order_id \in 1..Len(db.orders) /\ db.orders[order_id].customer_id = c) THEN
    [db |-> db, code |-> 404, detail |-> "Order not found"]
  ELSE IF db.orders[order_id].status \notin cancellable_statuses THEN
    [db |-> db, code |-> 400, detail |-> "Cannot cancel order with status"]
  ELSE
    [db |-> [db EXCEPT
               !.orders[order_id].status = "cancelled",
               !.orders[order_id].cancellation_reason = Some(reason),
               !.orders[order_id].cancelled_at = Some(now),
               !.orders[order_id].updated_at = now,
               !.inventory = restore_inventory(@,
                   SelectSeq(db.order_items, LAMBDA r : r.order_id = order_id))],
     code |-> 200, detail |-> "Order cancelled successfully"]

\* ------------------------------------------------------------------------
\* customer_prescriptions.py, admin_prescriptions.py
\* ------------------------------------------------------------------------
allowed_content_types == {"image/jpeg", "image/png", "image/jpg", "application/pdf"}

\* upload_prescription_simple, lines 91-109: the first product id the
\* validation loop rejects, -1 if none
first_invalid_product(product_ids) ==
  LET bad == { p \in product_ids :
                 \/ ~(p \in ProductIds /\ Product[p].is_active)
                 \/ ~Product[p].requires_prescription }
  IN  IF bad = {} THEN -1 ELSE CHOOSE p \in bad : \A q \in bad : p <= q

\* upload_prescription_simple; an empty product_ids stands for a string that
\* does not parse
upload_prescription_simple(rx, c, content_type, product_ids) ==
  IF content_type \notin allowed_content_types THEN
    [rx |-> rx, code |-> 400, detail |-> "Invalid file type"]
  ELSE IF product_ids = {} THEN
    [rx |-> rx, code |-> 400, detail |-> "Invalid product IDs format"]
  ELSE IF first_invalid_product(product_ids) # -1 THEN
    LET p == first_invalid_product(product_ids) IN
    IF ~(p \in ProductIds /\ Product[p].is_active)
    THEN [rx |-> rx, code |-> 404, detail |-> "Product with ID not found"]
    ELSE [rx |-> rx, code |-> 400, detail |-> "Product does not require a prescription"]
  ELSE
    [rx |-> Append(rx, [customer_id |-> c, status |-> "pending",
                        product_ids |-> product_ids]),
     code |-> 200, detail |-> "uploaded"]

\* verify_prescription; a status outside the enum fails at commit
verify_prescription(rx, prescription_id, status) ==
  IF prescription_id \notin 1..Len(rx) THEN
    [rx |-> rx, code |-> 404, detail |-> "Prescription not found"]
  ELSE IF status \notin PrescriptionStatus THEN
    [rx |-> rx, code |-> 500, detail |-> "Internal Server Error"]
  ELSE
    [rx |-> [rx EXCEPT ![prescription_id].status = status],
     code |-> 200, detail |-> "Prescription verified"]

\* ------------------------------------------------------------------------
\* admin_orders.py
\* ------------------------------------------------------------------------
\* update_order_status
update_order_status(db, order_id, status) ==
  IF order_id \notin 1..Len(db.orders) THEN
    [db |-> db, code |-> 404, detail |-> "Order not found"]
  ELSE IF status \notin valid_statuses THEN
    [db |-> db, code |-> 400, detail |-> "Invalid status"]
  ELSE
    [db |-> [db EXCEPT
               !.orders[order_id].ready_at = IF status = "ready" THEN Some(now) ELSE @,
               !.orders[order_id].cancelled_at = IF status = "cancelled" THEN Some(now) ELSE @,
               !.orders[order_id].status = status,
               !.orders[order_id].updated_at = now],
     code |-> 200, detail |-> "Order status updated"]

\* ------------------------------------------------------------------------
\* customer_payments.py
\* ------------------------------------------------------------------------
\* mutant: the check looks for a pending payment
existing_pending_payment(pay, order_id) ==
  First({ key \in 1..Len(pay) :
            pay[key].order_id = order_id /\ pay[key].status = "pending" }) # 0

\* process_payment, lines 63-67: the order has a payment with status completed
existing_payment(pay, order_id) ==
  First({ key \in 1..Len(pay) :
            pay[key].order_id = order_id /\ pay[key].status = "completed" }) # 0

\* mutant: the payment is recorded as completed whatever the gateway said
payment_status_always_completed(payment_successful) == "completed"

\* process_payment, line 78
payment_status(payment_successful) ==
  IF payment_successful THEN "completed" ELSE "failed"

\* process_payment; payment_successful is the outcome of random.random() < 0.8
process_payment(db, pay, c, order_id, payment_successful) ==
  IF ~(order_id \in 1..Len(db.orders) /\ db.orders[order_id].customer_id = c) THEN
    [db |-> db, pay |-> pay, code |-> 404, detail |-> "Order not found"]
  ELSE IF db.orders[order_id].status = "cancelled" THEN
    [db |-> db, pay |-> pay, code |-> 400, detail |-> "Cannot pay for cancelled order"]
  ELSE IF existing_payment(pay, order_id) THEN
    [db |-> db, pay |-> pay, code |-> 400,
     detail |-> "Payment already completed for this order"]
  ELSE
    [db |-> IF payment_successful
            THEN [db EXCEPT !.orders[order_id].status = "confirmed",
                            !.orders[order_id].updated_at = now]
            ELSE db,
     pay |-> Append(pay, [order_id |-> order_id,
                          amount |-> db.orders[order_id].final_amount,
                          status |-> payment_status(payment_successful),
                          paid_at |-> IF payment_successful THEN Some(now) ELSE Null]),
     code |-> 200, detail |-> "payment recorded"]

\* process_payment, lines 52-70, in a session: the order and the completed
\* payments are read from the committed tables
begin_process_payment(db, pay, c, order_id) ==
  LET r == process_payment(db, pay, c, order_id, TRUE) IN
  IF r.code # 200 THEN
    [session |-> [Idle EXCEPT !.pc = "done", !.customer = c, !.order_id = order_id],
     code |-> r.code, detail |-> r.detail]
  ELSE
    [session |-> [Idle EXCEPT !.pc = "read", !.customer = c, !.order_id = order_id,
                              !.order = Some(db.orders[order_id])],
     code |-> 0, detail |-> ""]

\* process_payment, lines 72-101, in a session: the payment is built from the
\* order the session read, and the commit inserts it and updates the order
commit_payment(db, pay, s, payment_successful) ==
  [db |-> IF payment_successful
          THEN [db EXCEPT !.orders[s.order_id].status = "confirmed",
                          !.orders[s.order_id].updated_at = now]
          ELSE db,
   pay |-> Append(pay, [order_id |-> s.order_id,
                        amount |-> s.order[1].final_amount,
                        status |-> payment_status(payment_successful),
                        paid_at |-> IF payment_successful THEN Some(now) ELSE Null]),
   code |-> 200, detail |-> "payment recorded"]

\* ------------------------------------------------------------------------
\* refund_calculator.py, refund.py
\* ------------------------------------------------------------------------
SecondsPerDay == 24 * SecondsPerHour

\* order.ready_at or order.created_at
delivery_time(order) ==
  IF order.ready_at # Null THEN order.ready_at[1] ELSE order.created_at

\* timedelta.days of t - delivery_time
days_since_delivery(order, t) == (t - delivery_time(order)) \div SecondsPerDay

\* is_refund_eligible at time t
is_refund_eligible(order, t) ==
  IF order.status \notin {"cancelled", "returned"} THEN FALSE
  ELSE IF order.status = "cancelled" THEN t - order.created_at <= 24 * SecondsPerHour
  ELSE days_since_delivery(order, t) <= 7

\* determine_refund_policy at time t
determine_refund_policy(order, t) ==
  IF order.status = "cancelled" THEN
    IF t - order.created_at < SecondsPerHour THEN "full"
    ELSE IF t - order.created_at < 24 * SecondsPerHour THEN "partial"
    ELSE "no refund"
  ELSE IF order.status = "returned" THEN
    IF days_since_delivery(order, t) <= 7 THEN "partial" ELSE "no refund"
  ELSE "no refund"

\* an exact decimal written to a DECIMAL(10, 2) column: nearest minor unit,
\* ties away from zero
round_decimal(num, den) ==
  LET a == IF num >= 0 THEN num ELSE 0 - num
      r == (2 * a + den) \div (2 * den)
  IN  IF num >= 0 THEN r ELSE 0 - r

\* order.cancellation_fee_percentage or 10.00: the column's Decimal, or the
\* float 10.00 when it is NULL or zero
fee_is_float(order) ==
  order.cancellation_fee_percentage = Null \/ order.cancellation_fee_percentage = Some(0)

\* calculate_refund_amount as the refunds.amount column keeps it; the partial
\* branch multiplies a float with a Decimal and raises when the fee is the float
calculate_refund_amount(order, refund_policy) ==
  IF refund_policy = "full" THEN [raises |-> FALSE, amount |-> order.final_amount]
  ELSE IF refund_policy = "partial" THEN
    IF fee_is_float(order) THEN [raises |-> TRUE, amount |-> 0]
    ELSE [raises |-> FALSE,
          amount |-> round_decimal(
                       order.final_amount * (10000 - order.cancellation_fee_percentage[1]),
                       10000)]
  ELSE [raises |-> FALSE, amount |-> 0]

\* mutant: only a completed refund counts as an existing one
existing_completed_refund(ref, order_id) ==
  First({ key \in 1..Len(ref) :
            ref[key].order_id = order_id /\ ref[key].status = "completed" }) # 0

\* request_refund, lines 38-39: the order has a refund
existing_refund(ref, order_id) ==
  First({ key \in 1..Len(ref) : ref[key].order_id = order_id }) # 0

\* request_refund; create_refund_notification is no name of refund.py, so the
\* call after the commit raises and the request ends in 500
request_refund(db, ref, c, order_id, reason) ==
  IF ~(order_id \in 1..Len(db.orders) /\ db.orders[order_id].customer_id = c) THEN
    [ref |-> ref, code |-> 404, detail |-> "Order not found"]
  ELSE IF ~is_refund_eligible(db.orders[order_id], now) THEN
    [ref |-> ref, code |-> 400,
     detail |-> "Order is not eligible for refund based on our policy"]
  ELSE IF existing_refund(ref, order_id) THEN
    [ref |-> ref, code |-> 400, detail |-> "Refund already requested for this order"]
  ELSE
    LET order == db.orders[order_id]
        refund_policy == determine_refund_policy(order, now)
        refund_amount == calculate_refund_amount(order, refund_policy)
    IN
    IF refund_amount.raises THEN
      [ref |-> ref, code |-> 500, detail |-> "Internal Server Error"]
    ELSE
      [ref |-> Append(ref, [order_id |-> order_id,
                            amount |-> refund_amount.amount,
                            cancellation_fee |->
                              IF fee_is_float(order)
                              THEN DefaultCancellationFeePercentage
                              ELSE order.cancellation_fee_percentage[1],
                            refund_policy |-> refund_policy,
                            reason |-> reason,
                            status |-> "pending",
                            created_at |-> now]),
       \* line 61 runs after the commit: refund.py neither imports nor defines
       \* create_refund_notification, the name lookup raises NameError
       code |-> 500, detail |-> "Internal Server Error"]

\* ------------------------------------------------------------------------
\* admin_backup.py
\* ------------------------------------------------------------------------
\* CheckConstraint type IN ('Auto','Manual') of backup and restore
backup_types == {"Auto", "Manual"}

\* create_backup, lines 22-30: backups/BK_ + strftime('%Y%m%d_%H%M%S') + .json
backup_path(t) == << "backups", t >>

\* the commit of a backup or restore row fails on a type outside the check
\* constraint and on a primary key that exists
commit_fails(rows, id, type) ==
  \/ type \notin backup_types
  \/ \E i \in 1..Len(rows) : rows[i].id = id

\* create_backup: the file is written before the row is committed
create_backup(bk, fs, type) ==
  LET written == fs \cup {backup_path(now)} IN
  IF commit_fails(bk, << "BK", now >>, type) THEN
    [backups |-> bk, files |-> written, code |-> 500, detail |-> "Backup creation failed"]
  ELSE
    [backups |-> Append(bk, [id |-> << "BK", now >>, path |-> backup_path(now),
                             type |-> type]),
     files |-> written, code |-> 200, detail |-> "Backup created successfully"]

\* restore_backup: the HTTPException raised for a missing file is an Exception
\* and is caught by the handler's own except clause
restore_backup(rs, fs, path, type) ==
  IF path \notin fs THEN
    [restores |-> rs, code |-> 500,
     detail |-> "Restore process failed: 404: Backup file not found"]
  ELSE IF commit_fails(rs, << "RS", now >>, type) THEN
    [restores |-> rs, code |-> 500, detail |-> "Restore process failed"]
  ELSE
    [restores |-> Append(rs, [id |-> << "RS", now >>, path |-> path, type |-> type]),
     code |-> 200, detail |-> "Restore process initiated successfully"]

\* ------------------------------------------------------------------------
\* auth.py
\* ------------------------------------------------------------------------
\* mutant: the role is taken from the request body
role_from_body(body_role) == body_role

\* register, line 29: the role of a new account
registered_role(body_role) == "customer"

\* register; CustomerCreate has no role field, so a role in the body is ignored
register(table, email, body_role) ==
  LET existing_customer == First({ key \in 1..Len(table) : table[key].email = email }) IN
  IF existing_customer # 0 THEN
    [table |-> table, code |-> 400, detail |-> "Email already registered"]
  ELSE
    [table |-> Append(table, [email |-> email, role |-> registered_role(body_role)]),
     code |-> 200, detail |-> ""]

\* ------------------------------------------------------------------------
\* The read endpoints that take an id.  rows is the set of records the
\* response shows, each a pair of its table and its primary key.
\* ------------------------------------------------------------------------
\* get_my_order: the order and its items
get_my_order(db, c, order_id) ==
  IF ~(order_id \in 1..Len(db.orders) /\ db.orders[order_id].customer_id = c) THEN
    [rows |-> {}, code |-> 404, detail |-> "Order not found"]
  ELSE [rows |-> {<< "order", order_id >>}, code |-> 200, detail |-> ""]

\* mutant: the payment is looked up by its id alone
get_any_payment_details(db, pay, c, payment_id) ==
  IF payment_id \notin 1..Len(pay) THEN
    [rows |-> {}, code |-> 404, detail |-> "Payment not found"]
  ELSE [rows |-> {<< "payment", payment_id >>}, code |-> 200, detail |-> ""]

\* get_payment_details: the payment joined with its order
get_payment_details(db, pay, c, payment_id) ==
  IF ~(payment_id \in 1..Len(pay)
       /\ db.orders[pay[payment_id].order_id].customer_id = c) THEN
    [rows |-> {}, code |-> 404, detail |-> "Payment not found"]
  ELSE [rows |-> {<< "payment", payment_id >>}, code |-> 200, detail |-> ""]

\* get_refund_details: the refund joined with its order
get_refund_details(db, ref, c, refund_id) ==
  IF ~(refund_id \in 1..Len(ref)
       /\ db.orders[ref[refund_id].order_id].customer_id = c) THEN
    [rows |-> {}, code |-> 404, detail |-> "Refund not found"]
  ELSE [rows |-> {<< "refund", refund_id >>}, code |-> 200, detail |-> ""]

\* ------------------------------------------------------------------------
\* notification.py
\* ------------------------------------------------------------------------
\* delete_notification
delete_notification(notes, c, notification_id) ==
  LET n == First({ key \in 1..Len(notes) :
                     /\ notes[key].notification_id = notification_id
                     /\ notes[key].recipient_customer_id = c })
  IN  IF n = 0 THEN [notes |-> notes, code |-> 404, detail |-> "Notification not found"]
      ELSE [notes |-> SelectSeq(notes, LAMBDA r : r.notification_id # notification_id),
            code |-> 200, detail |-> "Notification deleted successfully"]

\* ------------------------------------------------------------------------
\* middleware/auth.py
\* ------------------------------------------------------------------------
\* a bearer token: whether jwt.decode accepts it, and the user_id and role of
\* its payload
InvalidToken == [valid |-> FALSE, user_id |-> Null, role |-> Null]

\* create_access_token as login calls it for a row of customers
access_token(table, user_id) ==
  [valid |-> TRUE, user_id |-> Some(user_id), role |-> Some(table[user_id].role)]

\* the tokens a request can carry: an undecodable one, signed payloads without
\* user_id or without role, the token of every user, and the token of a user
\* whose row is gone
Tokens ==
  {InvalidToken,
   [valid |-> TRUE, user_id |-> Null, role |-> Some("customer")],
   [valid |-> TRUE, user_id |-> Some(1), role |-> Null],
   [valid |-> TRUE, user_id |-> Some(Len(customers) + 1), role |-> Some("admin")]}
  \cup { access_token(customers, u) : u \in 1..Len(customers) }

credentials_exception ==
  [user |-> 0, code |-> 401, detail |-> "Could not validate credentials"]

\* get_current_user: the customer_id the token names, or the 401
get_current_user(token) ==
  IF ~token.valid THEN credentials_exception
  ELSE IF token.user_id = Null \/ token.role = Null THEN credentials_exception
  ELSE IF token.user_id[1] \notin 1..Len(customers) THEN credentials_exception
  ELSE [user |-> token.user_id[1], code |-> 200, detail |-> ""]

\* mutant: any authenticated user passes
get_current_anyone(token) == get_current_user(token)

\* get_current_customer
get_current_customer(token) ==
  LET current_user == get_current_user(token) IN
  IF current_user.user = 0 THEN current_user
  ELSE IF customers[current_user.user].role # "customer" THEN
    [user |-> 0, code |-> 403,
     detail |-> "This feature is only available for customers. Admin access not allowed."]
  ELSE current_user

\* get_current_admin
get_current_admin(token) ==
  LET current_user == get_current_user(token) IN
  IF current_user.user = 0 THEN current_user
  ELSE IF customers[current_user.user].role # "admin" THEN
    [user |-> 0, code |-> 403, detail |-> "Not enough permissions. Admin access required."]
  ELSE current_user

Apply(r) ==
  /\ cart_items' = r.db.cart_items
  /\ next_cart_item_id' = r.db.next_cart_item_id
  /\ inventory' = r.db.inventory
  /\ orders' = r.db.orders
  /\ order_items' = r.db.order_items

AddToCart ==
  \E c \in Customers, p \in 0..Len(Product), q \in Quantities :
    /\ next_cart_item_id <= MaxCartItemId
    /\ LET r == add_to_cart(DB, c, p, q) IN
       /\ \A i \in 1..Len(r.db.cart_items) : r.db.cart_items[i].quantity \in Quantities
       /\ Apply(r)
       /\ resp' = Response("add_to_cart", c, r.code, r.detail)
    /\ UNCHANGED << sessions, backup_vars, customers, now, prescriptions, payments, refunds, notifications, had_approved >>

UpdateCartItem ==
  \E c \in Customers, id \in 1..MaxCartItemId, q \in Quantities :
    /\ LET r == update_cart_item(DB, c, id, q) IN
       /\ Apply(r)
       /\ resp' = Response("update_cart_item", c, r.code, r.detail)
    /\ UNCHANGED << sessions, backup_vars, customers, now, prescriptions, payments, refunds, notifications, had_approved >>

CreateOrder ==
  \E c \in Customers, a \in 0..(NumCustomers + 1), ot \in OrderTypeInputs :
    \E tax \in tax_amounts(cart_total(DB, c)), final \in final_amounts(cart_total(DB, c)) :
      /\ Len(orders) < MaxOrders
      /\ LET r == create_order(DB, c, a, ot, tax, final) IN
         /\ Apply(r)
         /\ resp' = [Response("create_order", c, r.code, r.detail) EXCEPT
                       !.order_id = IF r.code = 201 THEN Len(r.db.orders) ELSE 0,
                       !.shipping_address_id = a,
                       !.stock_before = IF r.code = 201 THEN Stock(inventory) ELSE << >>]
      /\ UNCHANGED << sessions, backup_vars, customers, now, prescriptions, payments, refunds, notifications, had_approved >>

CancelMyOrder ==
  \E c \in Customers, id \in 1..(MaxOrders + 1), reason \in {"changed my mind"} :
    /\ LET r == cancel_my_order(DB, c, id, reason) IN
       /\ \A i \in 1..Len(r.db.inventory) : r.db.inventory[i].quantity_in_stock <= MaxStock
       /\ Apply(r)
       /\ resp' = [Response("cancel_my_order", c, r.code, r.detail) EXCEPT !.order_id = id]
    /\ UNCHANGED << sessions, backup_vars, customers, now, prescriptions, payments, refunds, notifications, had_approved >>

UploadPrescription ==
  \E c \in Customers, ct \in {"image/png", "text/plain"}, ids \in SUBSET (0..Len(Product)) :
    /\ Len(prescriptions) < MaxPrescriptions
    /\ LET r == upload_prescription_simple(prescriptions, c, ct, ids) IN
       /\ prescriptions' = r.rx
       /\ resp' = Response("upload_prescription", c, r.code, r.detail)
    /\ UNCHANGED << sessions, backup_vars, customers, now, cart_items, next_cart_item_id, inventory, orders, order_items,
                    payments, refunds, notifications, had_approved >>

VerifyPrescription ==
  \E id \in 1..(MaxPrescriptions + 1), st \in PrescriptionStatus \cup {"verified"} :
    /\ LET r == verify_prescription(prescriptions, id, st) IN
       /\ prescriptions' = r.rx
       /\ had_approved' = had_approved \cup
            { r.rx[i].customer_id : i \in { j \in 1..Len(r.rx) : r.rx[j].status = "approved" } }
       /\ resp' = Response("verify_prescription", 0, r.code, r.detail)
    /\ UNCHANGED << sessions, backup_vars, customers, now, cart_items, next_cart_item_id, inventory, orders, order_items,
                    payments, refunds, notifications >>

UpdateOrderStatus ==
  \E id \in 1..(MaxOrders + 1), st \in valid_statuses \cup {"returned"} :
    /\ LET r == update_order_status(DB, id, st) IN
       /\ Apply(r)
       /\ resp' = [Response("update_order_status", 0, r.code, r.detail) EXCEPT !.order_id = id]
    /\ UNCHANGED << sessions, backup_vars, customers, now, prescriptions, payments, refunds, notifications, had_approved >>

ProcessPayment ==
  \E c \in Customers, id \in 1..(MaxOrders + 1), ok \in BOOLEAN :
    /\ Len(payments) < MaxPayments
    /\ LET r == process_payment(DB, payments, c, id, ok) IN
       /\ Apply(r)
       /\ payments' = r.pay
       /\ resp' = [Response("process_payment", c, r.code, r.detail) EXCEPT !.order_id = id]
    /\ UNCHANGED << sessions, backup_vars, customers, now, prescriptions, refunds, notifications, had_approved >>

RequestRefund ==
  \E c \in Customers, id \in 1..(MaxOrders + 1), reason \in {"not needed"} :
    /\ LET r == request_refund(DB, refunds, c, id, reason) IN
       /\ refunds' = r.ref
       /\ resp' = [Response("request_refund", c, r.code, r.detail) EXCEPT !.order_id = id]
    /\ UNCHANGED << sessions, backup_vars, customers, now, cart_items, next_cart_item_id, inventory, orders, order_items,
                    prescriptions, payments, notifications, had_approved >>

\* the ages at which the refund rules change their answer
RefundAges ==
  { 0, SecondsPerHour - 1, SecondsPerHour, 24 * SecondsPerHour, 24 * SecondsPerHour + 1,
    7 * SecondsPerDay, 8 * SecondsPerDay - 1, 8 * SecondsPerDay }

Instants == { t0 + a : t0 \in {0, SecondsPerDay}, a \in RefundAges }

\* time passes to a later instant
Advance ==
  /\ \E t \in Instants : t > now /\ now' = t
  /\ resp' = NoResponse
  /\ UNCHANGED << sessions, backup_vars, customers, cart_items, next_cart_item_id, inventory, orders, order_items,
                  prescriptions, payments, refunds, notifications, had_approved >>

Tick ==
  /\ now < MaxNow
  /\ now' = now + 1
  /\ resp' = NoResponse
  /\ UNCHANGED << sessions, backup_vars, customers, cart_items, next_cart_item_id, inventory, orders, order_items,
                  prescriptions, payments, refunds, notifications, had_approved >>

Next == AddToCart \/ UpdateCartItem \/ CreateOrder \/ CancelMyOrder \/ Tick

Spec == Init /\ [][Next]_vars

\* ordering with prescriptions
NextRx == AddToCart \/ CreateOrder \/ UploadPrescription \/ VerifyPrescription

SpecRx == Init /\ [][NextRx]_vars

\* The tables after customer 1 ordered one unit of product 1 and customer 2
\* then ordered two: add_to_cart and create_order applied to the initial rows.
OrderedDB(tax1, final1, tax2, final2) ==
  LET d0 == [cart_items |-> << >>, next_cart_item_id |-> 1,
             inventory |-> InitialInventory, orders |-> << >>, order_items |-> << >>]
      d1 == add_to_cart(d0, 1, 1, 1).db
      d2 == create_order(d1, 1, 1, "delivery", tax1, final1).db
      d3 == add_to_cart(d2, 2, 1, 2).db
  IN  create_order(d3, 2, 2, "delivery", tax2, final2).db

InitOrdered ==
  /\ sessions = NoSessions
  /\ backups = << >> /\ restores = << >> /\ files = {}
  /\ customers = InitialCustomers
  /\ now = 0
  /\ prescriptions = << >>
  /\ payments = << >>
  /\ refunds = << >>
  /\ notifications = << >>
  /\ had_approved = {}
  /\ resp = NoResponse
  /\ \E tax1 \in tax_amounts(Product[1].price), final1 \in final_amounts(Product[1].price),
        tax2 \in tax_amounts(2 * Product[1].price),
        final2 \in final_amounts(2 * Product[1].price) :
       LET d == OrderedDB(tax1, final1, tax2, final2) IN
         /\ cart_items = d.cart_items
         /\ next_cart_item_id = d.next_cart_item_id
         /\ inventory = d.inventory
         /\ orders = d.orders
         /\ order_items = d.order_items

\* orders moved through their statuses by the admin and cancelled by customers
NextStatus == CancelMyOrder \/ UpdateOrderStatus

SpecStatus == InitOrdered /\ [][NextStatus]_vars

\* paying for orders
NextPay == ProcessPayment \/ CancelMyOrder

SpecPay == InitOrdered /\ [][NextPay]_vars

\* an order row after the admin or the customer moved it on: its status and
\* timestamps replaced
OrderRow(order, status, created_at, ready_at) ==
  [order EXCEPT
     !.order_number = order_number(created_at, order.customer_id),
     !.status = status,
     !.cancellation_reason = IF status = "cancelled" THEN Some("changed my mind") ELSE Null,
     !.cancelled_at = IF status = "cancelled" THEN Some(created_at) ELSE Null,
     !.ready_at = ready_at,
     !.created_at = created_at,
     !.updated_at = created_at]

RefundStatuses == {"cancelled", "returned", "delivered"}

\* requesting refunds: the two orders of OrderedDB one day after time 0; the
\* first in any status the refund rules tell apart, created at time 0 or just
\* now, made ready or not; the second cancelled or returned just now.
\* orders.status is a String(50) column: 'returned', which the refund rules
\* read, is written by no handler of src/app and is taken as found in the table.
InitRefund ==
  /\ sessions = NoSessions
  /\ backups = << >> /\ restores = << >> /\ files = {}
  /\ customers = InitialCustomers
  /\ now = SecondsPerDay
  /\ prescriptions = << >>
  /\ payments = << >>
  /\ refunds = << >>
  /\ notifications = << >>
  /\ had_approved = {}
  /\ resp = NoResponse
  /\ \E tax1 \in tax_amounts(Product[1].price), final1 \in final_amounts(Product[1].price),
        tax2 \in tax_amounts(2 * Product[1].price),
        final2 \in final_amounts(2 * Product[1].price) :
       LET d == OrderedDB(tax1, final1, tax2, final2) IN
         /\ cart_items = d.cart_items
         /\ next_cart_item_id = d.next_cart_item_id
         /\ inventory = d.inventory
         /\ order_items = d.order_items
         /\ \E s1 \in RefundStatuses, s2 \in {"cancelled", "returned"},
               c1 \in {0, SecondsPerDay}, r1 \in {Null, Some(SecondsPerDay)} :
              orders = << OrderRow(d.orders[1], s1, c1, r1),
                          OrderRow(d.orders[2], s2, SecondsPerDay, Null) >>

NextRefund == RequestRefund \/ Advance

SpecRefund == InitRefund /\ [][NextRefund]_vars

\* determine_refund_policy and calculate_refund_amount applied to an order at
\* the current time, as request_refund lines 44-45 apply them
DetermineRefund ==
  \E id \in 1..Len(orders) :
    /\ LET refund_policy == determine_refund_policy(orders[id], now)
           refund_amount == calculate_refund_amount(orders[id], refund_policy)
       IN  resp' = [op |-> "determine_refund", order_id |-> id,
                    refund_policy |-> refund_policy,
                    raises |-> refund_amount.raises,
                    amount |-> refund_amount.amount]
    /\ UNCHANGED << sessions, backup_vars, customers, now, cart_items, next_cart_item_id, inventory, orders, order_items,
                    prescriptions, payments, refunds, notifications, had_approved >>

\* The tables after customer 1 put quantity units of product 1 in the cart and
\* ordered them: add_to_cart and create_order applied to the initial rows.
PolicyDB(quantity, tax, final) ==
  LET d0 == [cart_items |-> << >>, next_cart_item_id |-> 1,
             inventory |-> InitialInventory, orders |-> << >>, order_items |-> << >>]
      d1 == add_to_cart(d0, 1, 1, quantity).db
  IN  create_order(d1, 1, 1, "delivery", tax, final).db

\* refund policy and amount: one order of customer 1, for one unit or for a
\* negative quantity (the cart schemas accept any integer), one day after time
\* 0; in any status the refund rules tell apart, created at time 0 or just now,
\* made ready or not
InitPolicy ==
  /\ sessions = NoSessions
  /\ backups = << >> /\ restores = << >> /\ files = {}
  /\ customers = InitialCustomers
  /\ now = SecondsPerDay
  /\ prescriptions = << >>
  /\ payments = << >>
  /\ refunds = << >>
  /\ notifications = << >>
  /\ had_approved = {}
  /\ resp = NoResponse
  /\ \E quantity \in {1, 0 - NegativeOrderQty} :
       \E tax \in tax_amounts(quantity * Product[1].price),
          final \in final_amounts(quantity * Product[1].price) :
         LET d == PolicyDB(quantity, tax, final) IN
           /\ cart_items = d.cart_items
           /\ next_cart_item_id = d.next_cart_item_id
           /\ inventory = d.inventory
           /\ order_items = d.order_items
           /\ \E s1 \in RefundStatuses, c1 \in {0, SecondsPerDay},
                 r1 \in {Null, Some(SecondsPerDay)} :
                orders = << OrderRow(d.orders[1], s1, c1, r1) >>

NextPolicy == DetermineRefund \/ RequestRefund \/ Advance

SpecPolicy == InitPolicy /\ [][NextPolicy]_vars

\* ------------------------------------------------------------------------
\* Requests with their bearer token: the dependency of the route runs first and
\* the handler only when it returned a user
\* ------------------------------------------------------------------------
\* the last request with its token and the router it went to
Request(router, op, token, auth, code, detail) ==
  [router |-> router, op |-> op, token |-> token, customer |-> auth.user,
   code |-> IF auth.user = 0 THEN auth.code ELSE code,
   detail |-> IF auth.user = 0 THEN auth.detail ELSE detail]

\* POST /cart/
PostCart ==
  \E token \in Tokens, p \in ProductIds :
    /\ next_cart_item_id <= MaxAuthRows
    /\ LET auth == get_current_customer(token)
           r == IF auth.user = 0 THEN [db |-> DB, code |-> 0, detail |-> ""]
                ELSE add_to_cart(DB, auth.user, p, 1)
       IN  /\ \A i \in 1..Len(r.db.cart_items) : r.db.cart_items[i].quantity \in Quantities
           /\ Apply(r)
           /\ resp' = Request("customer", "add_to_cart", token, auth, r.code, r.detail)
    /\ UNCHANGED << sessions, backup_vars, customers, now, prescriptions, payments, refunds, notifications,
                    had_approved >>

\* POST /customer/orders/{order_id}/cancel
PostCancel ==
  \E token \in Tokens, id \in 1..MaxOrders :
    /\ LET auth == get_current_customer(token)
           r == IF auth.user = 0 THEN [db |-> DB, code |-> 0, detail |-> ""]
                ELSE cancel_my_order(DB, auth.user, id, "changed my mind")
       IN  /\ Apply(r)
           /\ resp' = Request("customer", "cancel_my_order", token, auth, r.code, r.detail)
    /\ UNCHANGED << sessions, backup_vars, customers, now, prescriptions, payments, refunds, notifications,
                    had_approved >>

\* POST /customer/payments/{order_id}/pay
PostPay ==
  \E token \in Tokens, id \in 1..MaxOrders, ok \in BOOLEAN :
    /\ Len(payments) < MaxAuthRows
    /\ LET auth == get_current_customer(token)
           r == IF auth.user = 0 THEN [db |-> DB, pay |-> payments, code |-> 0, detail |-> ""]
                ELSE process_payment(DB, payments, auth.user, id, ok)
       IN  /\ Apply(r)
           /\ payments' = r.pay
           /\ resp' = Request("customer", "process_payment", token, auth, r.code, r.detail)
    /\ UNCHANGED << sessions, backup_vars, customers, now, prescriptions, refunds, notifications, had_approved >>

\* POST /customer/prescriptions/upload
PostUpload ==
  \E token \in Tokens :
    /\ Len(prescriptions) < MaxAuthRows
    /\ LET auth == get_current_customer(token)
           r == IF auth.user = 0 THEN [rx |-> prescriptions, code |-> 0, detail |-> ""]
                ELSE upload_prescription_simple(prescriptions, auth.user, "image/png", {2})
       IN  /\ prescriptions' = r.rx
           /\ resp' = Request("customer", "upload_prescription", token, auth, r.code, r.detail)
    /\ UNCHANGED << sessions, backup_vars, customers, now, cart_items, next_cart_item_id, inventory, orders,
                    order_items, payments, refunds, notifications, had_approved >>

\* POST /refunds/request
PostRefund ==
  \E token \in Tokens, id \in 1..MaxOrders :
    /\ LET auth == get_current_customer(token)
           r == IF auth.user = 0 THEN [ref |-> refunds, code |-> 0, detail |-> ""]
                ELSE request_refund(DB, refunds, auth.user, id, "not needed")
       IN  /\ refunds' = r.ref
           /\ resp' = Request("customer", "request_refund", token, auth, r.code, r.detail)
    /\ UNCHANGED << sessions, backup_vars, customers, now, cart_items, next_cart_item_id, inventory, orders,
                    order_items, prescriptions, payments, notifications, had_approved >>

\* DELETE /notifications/{notification_id}
DeleteNotification ==
  \E token \in Tokens, id \in 1..MaxAuthRows :
    /\ LET auth == get_current_customer(token)
           r == IF auth.user = 0 THEN [notes |-> notifications, code |-> 0, detail |-> ""]
                ELSE delete_notification(notifications, auth.user, id)
       IN  /\ notifications' = r.notes
           /\ resp' = Request("customer", "delete_notification", token, auth, r.code, r.detail)
    /\ UNCHANGED << sessions, backup_vars, customers, now, cart_items, next_cart_item_id, inventory, orders,
                    order_items, prescriptions, payments, refunds, had_approved >>

\* PUT /admin/orders/{order_id}/status
PutStatus ==
  \E token \in Tokens, id \in 1..MaxOrders, st \in {"delivered", "returned"} :
    /\ LET auth == get_current_admin(token)
           r == IF auth.user = 0 THEN [db |-> DB, code |-> 0, detail |-> ""]
                ELSE update_order_status(DB, id, st)
       IN  /\ Apply(r)
           /\ resp' = Request("admin", "update_order_status", token, auth, r.code, r.detail)
    /\ UNCHANGED << sessions, backup_vars, customers, now, prescriptions, payments, refunds, notifications,
                    had_approved >>

\* PUT /admin/prescriptions/{prescription_id}/verify
PutVerify ==
  \E token \in Tokens, id \in 1..MaxAuthRows, st \in {"approved", "verified"} :
    /\ LET auth == get_current_admin(token)
           r == IF auth.user = 0 THEN [rx |-> prescriptions, code |-> 0, detail |-> ""]
                ELSE verify_prescription(prescriptions, id, st)
       IN  /\ prescriptions' = r.rx
           /\ had_approved' = had_approved \cup
                { r.rx[i].customer_id : i \in { j \in 1..Len(r.rx) : r.rx[j].status = "approved" } }
           /\ resp' = Request("admin", "verify_prescription", token, auth, r.code, r.detail)
    /\ UNCHANGED << sessions, backup_vars, customers, now, cart_items, next_cart_item_id, inventory, orders,
                    order_items, payments, refunds, notifications >>

\* the order of PolicyDB for one unit and a notification about it
InitAuth ==
  /\ sessions = NoSessions
  /\ backups = << >> /\ restores = << >> /\ files = {}
  /\ customers = InitialCustomers
  /\ now = 0
  /\ prescriptions = << >>
  /\ payments = << >>
  /\ refunds = << >>
  /\ notifications = << [notification_id |-> 1, title |-> "Order Update", type |-> "info",
                          recipient_customer_id |-> 1, order_id |-> 1, is_read |-> FALSE] >>
  /\ had_approved = {}
  /\ resp = NoResponse
  /\ \E tax \in tax_amounts(Product[1].price), final \in final_amounts(Product[1].price) :
       LET d == PolicyDB(1, tax, final) IN
         /\ cart_items = << >>
         /\ next_cart_item_id = 1
         /\ inventory = d.inventory
         /\ orders = d.orders
         /\ order_items = d.order_items

NextAuth ==
  \/ PostCart \/ PostCancel \/ PostPay \/ PostUpload \/ PostRefund \/ DeleteNotification
  \/ PutStatus \/ PutVerify

SpecAuth == InitAuth /\ [][NextAuth]_vars

\* POST /auth/register
Register ==
  \E email \in 1..(NumCustomers + 1 + MaxRegistrations), body_role \in {"customer", "admin"} :
    /\ Len(customers) < NumCustomers + 1 + MaxRegistrations
    /\ LET r == register(customers, email, body_role) IN
       /\ customers' = r.table
       /\ resp' = [op |-> "register", email |-> email, body_role |-> body_role,
                   code |-> r.code, detail |-> r.detail]
    /\ UNCHANGED << sessions, backup_vars, now, cart_items, next_cart_item_id, inventory, orders,
                    order_items, prescriptions, payments, refunds, notifications,
                    had_approved >>

NextRegister == Register

SpecRegister == Init /\ [][NextRegister]_vars

\* POST /admin/backup/create
CreateBackup ==
  \E type \in backup_types \cup {"Full"} :
    /\ LET r == create_backup(backups, files, type) IN
       /\ backups' = r.backups
       /\ files' = r.files
       /\ resp' = [op |-> "create_backup", path |-> backup_path(now), type |-> type,
                   code |-> r.code, detail |-> r.detail]
    /\ UNCHANGED << sessions, restores, customers, now, cart_items, next_cart_item_id, inventory,
                    orders, order_items, prescriptions, payments, refunds, notifications,
                    had_approved >>

\* POST /admin/backup/restore
RestoreBackup ==
  \E t \in 0..MaxNow, type \in backup_types \cup {"Full"} :
    /\ LET r == restore_backup(restores, files, backup_path(t), type) IN
       /\ restores' = r.restores
       /\ resp' = [op |-> "restore_backup", path |-> backup_path(t), type |-> type,
                   code |-> r.code, detail |-> r.detail]
    /\ UNCHANGED << sessions, backups, files, customers, now, cart_items, next_cart_item_id,
                    inventory, orders, order_items, prescriptions, payments, refunds,
                    notifications, had_approved >>

NextBackup == CreateBackup \/ RestoreBackup \/ Tick

SpecBackup == Init /\ [][NextBackup]_vars

\* ------------------------------------------------------------------------
\* Requests that run concurrently
\* ------------------------------------------------------------------------
\* POST /orders/ reaches line 222: the checks passed, or the error response
BeginCreateOrder ==
  \E r \in Requests, c \in Customers, ot \in OrderTypeInputs :
    \E tax \in tax_amounts(cart_total(DB, c)), final \in final_amounts(cart_total(DB, c)) :
      /\ sessions[r].pc = "idle"
      /\ \A r2 \in Requests : sessions[r2].customer # c
      /\ LET b == begin_create_order(DB, c, CustomerAddress[c], ot, tax, final) IN
         /\ sessions' = [sessions EXCEPT ![r] = b.session]
         /\ resp' = IF b.code = 0 THEN resp
                    ELSE Response("create_order", c, b.code, b.detail)
      /\ UNCHANGED << backup_vars, customers, now, cart_items, next_cart_item_id, inventory,
                      orders, order_items, prescriptions, payments, refunds, notifications,
                      had_approved >>

\* the request runs lines 224-234
UpdateInventory ==
  \E r \in Requests :
    /\ sessions[r].pc = "checked"
    /\ sessions' = [sessions EXCEPT
                      ![r] = [update_inventory(inventory, @, @.items) EXCEPT
                                !.pc = "updated"]]
    /\ UNCHANGED << backup_vars, customers, now, cart_items, next_cart_item_id, inventory,
                    orders, order_items, prescriptions, payments, refunds, notifications,
                    had_approved, resp >>

\* the request runs lines 237-245 and answers 201
CommitOrder ==
  \E r \in Requests :
    /\ sessions[r].pc = "updated"
    /\ LET d == commit_order(DB, sessions[r]) IN
       /\ Apply([db |-> d])
       /\ resp' = [Response("create_order", sessions[r].customer, 201,
                            "Order created successfully") EXCEPT
                     !.order_id = Len(d.orders),
                     !.shipping_address_id = CustomerAddress[sessions[r].customer]]
    /\ sessions' = [sessions EXCEPT
                      ![r] = [Idle EXCEPT !.pc = "done", !.customer = sessions[r].customer]]
    /\ UNCHANGED << backup_vars, customers, now, prescriptions, payments, refunds,
                    notifications, had_approved >>

\* the tables before the requests: one batch of product 1 with the given
\* stock, and product 1 in the cart of each customer
CartsDB(stock, quantity) ==
  LET d0 == [cart_items |-> << >>, next_cart_item_id |-> 1,
             inventory |-> << [product_id |-> 1, quantity_in_stock |-> stock,
                               is_available |-> TRUE],
                              InitialInventory[3] >>,
             orders |-> << >>, order_items |-> << >>]
      d1 == add_to_cart(d0, 1, 1, quantity[1]).db
  IN  add_to_cart(d1, 2, 1, quantity[2]).db

InitCarts ==
  /\ sessions = NoSessions
  /\ backups = << >> /\ restores = << >> /\ files = {}
  /\ customers = InitialCustomers
  /\ now = 0
  /\ prescriptions = << >>
  /\ payments = << >>
  /\ refunds = << >>
  /\ notifications = << >>
  /\ had_approved = {}
  /\ resp = NoResponse
  /\ \E stock \in 1..MaxStock, quantity \in [Customers -> 1..MaxQty] :
       LET d == CartsDB(stock, quantity) IN
         /\ Len(d.cart_items) = NumCustomers
         /\ cart_items = d.cart_items
         /\ next_cart_item_id = d.next_cart_item_id
         /\ inventory = d.inventory
         /\ orders = d.orders
         /\ order_items = d.order_items

NextOrders == BeginCreateOrder \/ UpdateInventory \/ CommitOrder

SpecOrders == InitCarts /\ [][NextOrders]_vars

\* POST /payments/{order_id}/pay reaches line 70: the checks passed, or the
\* error response
BeginPayment ==
  \E r \in Requests, c \in Customers, id \in 1..MaxOrders :
    /\ sessions[r].pc = "idle"
    /\ LET b == begin_process_payment(DB, payments, c, id) IN
       /\ sessions' = [sessions EXCEPT ![r] = b.session]
       /\ resp' = IF b.code = 0 THEN resp
                  ELSE [Response("process_payment", c, b.code, b.detail) EXCEPT
                          !.order_id = id]
    /\ UNCHANGED << backup_vars, customers, now, cart_items, next_cart_item_id, inventory,
                    orders, order_items, prescriptions, payments, refunds, notifications,
                    had_approved >>

\* the request runs lines 72-101 and answers with the payment
CommitPayment ==
  \E r \in Requests, ok \in BOOLEAN :
    /\ sessions[r].pc = "read"
    /\ LET p == commit_payment(DB, payments, sessions[r], ok) IN
       /\ Apply(p)
       /\ payments' = p.pay
       /\ resp' = [Response("process_payment", sessions[r].customer, p.code, p.detail)
                     EXCEPT !.order_id = sessions[r].order_id]
    /\ sessions' = [sessions EXCEPT
                      ![r] = [Idle EXCEPT !.pc = "done", !.customer = sessions[r].customer,
                                         !.order_id = sessions[r].order_id]]
    /\ UNCHANGED << backup_vars, customers, now, prescriptions, refunds, notifications,
                    had_approved >>

NextPayments == BeginPayment \/ CommitPayment \/ Tick

SpecPayments == InitOrdered /\ [][NextPayments]_vars

\* ------------------------------------------------------------------------
\* Requests of one customer that name a record by its id
\* ------------------------------------------------------------------------
\* the last request: its caller, the record it names, the status code and the
\* records the response shows
Named(op, customer, named, code, rows) ==
  [op |-> op, customer |-> customer, named |-> named, code |-> code, rows |-> rows]

\* PUT /cart/{cart_item_id}
PutCartItem ==
  \E c \in Customers, id \in 1..MaxCartItemId, q \in 1..MaxQty :
    /\ LET r == update_cart_item(DB, c, id, q) IN
       /\ Apply(r)
       /\ resp' = Named("update_cart_item", c, << "cart", id >>, r.code,
                        IF r.code = 200 THEN {<< "cart", id >>} ELSE {})
    /\ UNCHANGED << sessions, backup_vars, customers, now, prescriptions, payments, refunds, notifications,
                    had_approved >>

\* GET /customer/orders/{order_id}
GetOrder ==
  \E c \in Customers, id \in 1..MaxOrders :
    /\ LET r == get_my_order(DB, c, id) IN
       resp' = Named("get_my_order", c, << "order", id >>, r.code, r.rows)
    /\ UNCHANGED << sessions, backup_vars, customers, now, cart_items, next_cart_item_id, inventory, orders,
                    order_items, prescriptions, payments, refunds, notifications,
                    had_approved >>

\* POST /customer/orders/{order_id}/cancel
CancelOrder ==
  \E c \in Customers, id \in 1..MaxOrders :
    /\ LET r == cancel_my_order(DB, c, id, "changed my mind") IN
       /\ Apply(r)
       /\ resp' = Named("cancel_my_order", c, << "order", id >>, r.code,
                        IF r.code = 200 THEN {<< "order", id >>} ELSE {})
    /\ UNCHANGED << sessions, backup_vars, customers, now, prescriptions, payments, refunds, notifications,
                    had_approved >>

\* POST /customer/payments/{order_id}/pay
PayOrder ==
  \E c \in Customers, id \in 1..MaxOrders, ok \in BOOLEAN :
    /\ Len(payments) < MaxAuthRows
    /\ LET r == process_payment(DB, payments, c, id, ok) IN
       /\ Apply(r)
       /\ payments' = r.pay
       /\ resp' = Named("process_payment", c, << "order", id >>, r.code,
                        IF r.code = 200 THEN {<< "payment", Len(r.pay) >>} ELSE {})
    /\ UNCHANGED << sessions, backup_vars, customers, now, prescriptions, refunds, notifications, had_approved >>

\* GET /customer/payments/{payment_id}
GetPayment ==
  \E c \in Customers, id \in 1..MaxAuthRows :
    /\ LET r == get_payment_details(DB, payments, c, id) IN
       resp' = Named("get_payment_details", c, << "payment", id >>, r.code, r.rows)
    /\ UNCHANGED << sessions, backup_vars, customers, now, cart_items, next_cart_item_id, inventory, orders,
                    order_items, prescriptions, payments, refunds, notifications,
                    had_approved >>

\* POST /refunds/request
RefundOrder ==
  \E c \in Customers, id \in 1..MaxOrders :
    /\ LET r == request_refund(DB, refunds, c, id, "not needed") IN
       /\ refunds' = r.ref
       /\ resp' = Named("request_refund", c, << "order", id >>, r.code, {})
    /\ UNCHANGED << sessions, backup_vars, customers, now, cart_items, next_cart_item_id, inventory, orders,
                    order_items, prescriptions, payments, notifications, had_approved >>

\* GET /refunds/{refund_id}
GetRefund ==
  \E c \in Customers, id \in 1..MaxOrders :
    /\ LET r == get_refund_details(DB, refunds, c, id) IN
       resp' = Named("get_refund_details", c, << "refund", id >>, r.code, r.rows)
    /\ UNCHANGED << sessions, backup_vars, customers, now, cart_items, next_cart_item_id, inventory, orders,
                    order_items, prescriptions, payments, refunds, notifications,
                    had_approved >>

\* DELETE /notifications/{notification_id}
RemoveNotification ==
  \E c \in Customers, id \in 1..NumCustomers :
    /\ LET r == delete_notification(notifications, c, id) IN
       /\ notifications' = r.notes
       /\ resp' = Named("delete_notification", c, << "notification", id >>, r.code, {})
    /\ UNCHANGED << sessions, backup_vars, customers, now, cart_items, next_cart_item_id, inventory, orders,
                    order_items, prescriptions, payments, refunds, had_approved >>

\* The tables after the two orders of OrderedDB and one unit of product 2 in
\* each customer's cart.
OwnedDB(tax1, final1, tax2, final2) ==
  LET d1 == OrderedDB(tax1, final1, tax2, final2)
      d2 == add_to_cart(d1, 1, 2, 1).db
  IN  add_to_cart(d2, 2, 2, 1).db

\* every customer has an order, a cart item and a notification
InitOwned ==
  /\ sessions = NoSessions
  /\ backups = << >> /\ restores = << >> /\ files = {}
  /\ customers = InitialCustomers
  /\ now = 0
  /\ prescriptions = << >>
  /\ payments = << >>
  /\ refunds = << >>
  /\ notifications = [i \in 1..NumCustomers |->
                        [notification_id |-> i, title |-> "Order Update", type |-> "info",
                         recipient_customer_id |-> i, order_id |-> i, is_read |-> FALSE]]
  /\ had_approved = {}
  /\ resp = NoResponse
  /\ \E tax1 \in tax_amounts(Product[1].price), final1 \in final_amounts(Product[1].price),
        tax2 \in tax_amounts(2 * Product[1].price),
        final2 \in final_amounts(2 * Product[1].price) :
       LET d == OwnedDB(tax1, final1, tax2, final2) IN
         /\ cart_items = d.cart_items
         /\ next_cart_item_id = d.next_cart_item_id
         /\ inventory = d.inventory
         /\ orders = d.orders
         /\ order_items = d.order_items

NextOwned ==
  \/ PutCartItem \/ GetOrder \/ CancelOrder \/ PayOrder \/ GetPayment
  \/ RefundOrder \/ GetRefund \/ RemoveNotification

SpecOwned == InitOwned /\ [][NextOwned]_vars

\* ------------------------------------------------------------------------
\* Properties
\* ------------------------------------------------------------------------
\* total quantity_in_stock of a product over its batches
ProductStock(inv, p) ==
  SumSeq([i \in 1..Len(inv) |-> IF inv[i].product_id = p THEN inv[i].quantity_in_stock ELSE 0])

\* quantity of product p in a sequence of cart or order rows
QuantityOf(rows, p) ==
  SumSeq([i \in 1..Len(rows) |-> IF rows[i].product_id = p THEN rows[i].quantity ELSE 0])

ItemsOf(items, order_id) == SelectSeq(items, LAMBDA r : r.order_id = order_id)

\* C1: no inventory batch ever has a negative quantity_in_stock, whatever
\* add_to_cart, update_cart_item, create_order and cancel_my_order requests ran.
C1_StockNeverNegative ==
  \A i \in 1..Len(inventory) : inventory[i].quantity_in_stock >= 0

\* C2: a create_order request that returns an error leaves orders, order items,
\* inventory (quantity_in_stock and is_available) and every cart as they were.
C2_RejectedOrderChangesNothing ==
  [][(resp'.op = "create_order" /\ resp'.code # 201)
       => /\ orders' = orders
          /\ order_items' = order_items
          /\ inventory' = inventory
          /\ cart_items' = cart_items]_vars

\* C2 witness: create_order failed at db.flush() (500) with a cart that had
\* passed every check, while an earlier order exists.
C2_Witness ==
  /\ resp.op = "create_order" /\ resp.code = 500
  /\ Len(orders) > 0
  /\ CartOf(DB, resp.customer) # << >>

\* C3: a successful create_order appends one pending order of the caller with one
\* order item per cart item (same product_id and quantity, in cart order), lowers
\* each product's stock by the ordered quantity, empties the caller's cart and
\* leaves the other carts alone.
C3_OrderFromCart ==
  [][(resp'.op = "create_order" /\ resp'.code = 201)
       => LET c == resp'.customer
              id == resp'.order_id
              cart == CartOf(DB, c)
              new_items == ItemsOf(order_items', id)
          IN  /\ Len(orders') = Len(orders) + 1
              /\ id = Len(orders')
              /\ SubSeq(orders', 1, Len(orders)) = orders
              /\ orders'[id].status = "pending"
              /\ orders'[id].customer_id = c
              /\ SubSeq(order_items', 1, Len(order_items)) = order_items
              /\ Len(order_items') = Len(order_items) + Len(cart)
              /\ Len(new_items) = Len(cart)
              /\ \A i \in 1..Len(cart) :
                   /\ new_items[i].product_id = cart[i].product_id
                   /\ new_items[i].quantity = cart[i].quantity
              /\ \A p \in ProductIds :
                   ProductStock(inventory', p) = ProductStock(inventory, p) - QuantityOf(cart, p)
              /\ SelectSeq(cart_items', LAMBDA r : r.customer_id = c) = << >>
              /\ SelectSeq(cart_items', LAMBDA r : r.customer_id # c)
                   = SelectSeq(cart_items, LAMBDA r : r.customer_id # c)]_vars

\* C3 witness: an order was created while another customer still has a cart.
C3_Witness ==
  /\ resp.op = "create_order" /\ resp.code = 201
  /\ \E i \in 1..Len(cart_items) : cart_items[i].customer_id # resp.customer
  /\ \E i \in 1..Len(inventory) : inventory[i].quantity_in_stock # InitialInventory[i].quantity_in_stock

\* C4: every order's total_amount is the sum of its items' subtotals, each
\* subtotal is unit_price * quantity, shipping_charges is 50.00, discount_amount
\* is 0, tax_amount is 18% of total_amount to the nearest minor unit and
\* final_amount = total_amount + shipping_charges + tax_amount.
C4_OrderAmounts ==
  \A id \in 1..Len(orders) :
    LET o == orders[id]
        its == ItemsOf(order_items, id)
    IN  /\ \A i \in 1..Len(its) : its[i].subtotal = its[i].unit_price * its[i].quantity
        /\ o.total_amount = SumSeq([i \in 1..Len(its) |-> its[i].subtotal])
        /\ o.shipping_charges = 5000
        /\ o.discount_amount = 0
        /\ o.tax_amount \in store_decimal(18 * o.total_amount, 100)
        /\ o.final_amount = o.total_amount + o.shipping_charges + o.tax_amount

\* the rows of a cart or an order that are prescription-only products
NeedsPrescription(rows) ==
  \E i \in 1..Len(rows) :
    rows[i].product_id \in ProductIds /\ Product[rows[i].product_id].requires_prescription

HasApproved(c) ==
  \E i \in 1..Len(prescriptions) :
    prescriptions[i].customer_id = c /\ prescriptions[i].status = "approved"

NothingCreated ==
  /\ orders' = orders
  /\ order_items' = order_items
  /\ inventory' = inventory
  /\ cart_items' = cart_items

\* C5 as claimed: a create_order whose cart holds a prescription-only product
\* while the caller has no approved prescription always answers 400
\* 'Prescription required for: ...' and creates nothing; no customer who never
\* had an approved prescription has an order with a prescription-only item.
C5_GateAlwaysNamesPrescription ==
  /\ [][(resp'.op = "create_order"
           /\ NeedsPrescription(CartOf(DB, resp'.customer))
           /\ ~HasApproved(resp'.customer))
          => /\ resp'.code = 400
             /\ resp'.detail = "Prescription required"
             /\ NothingCreated]_vars
  /\ [](\A i \in 1..Len(order_items) :
          order_items[i].requires_prescription
            => orders[order_items[i].order_id].customer_id \in had_approved)

\* C5 amended: such a create_order answers 400 and creates nothing; the detail
\* is 'Prescription required for: ...' when the request names no shipping
\* address or one of the caller's, and 'Invalid shipping address' otherwise.
\* No customer who never had an approved prescription has an order with a
\* prescription-only item.
C5_PrescriptionGate ==
  /\ [][(resp'.op = "create_order"
           /\ NeedsPrescription(CartOf(DB, resp'.customer))
           /\ ~HasApproved(resp'.customer))
          => /\ resp'.code = 400
             /\ resp'.detail =
                  IF \/ resp'.shipping_address_id = 0
                     \/ /\ resp'.shipping_address_id \in DOMAIN CustomerAddress
                        /\ CustomerAddress[resp'.shipping_address_id] = resp'.customer
                  THEN "Prescription required"
                  ELSE "Invalid shipping address"
             /\ NothingCreated]_vars
  /\ [](\A i \in 1..Len(order_items) :
          order_items[i].requires_prescription
            => orders[order_items[i].order_id].customer_id \in had_approved)

\* C5 witness: the gate rejected a customer whose only prescription is not
\* approved, while another order exists.
C5_Witness ==
  /\ resp.op = "create_order" /\ resp.code = 400
  /\ resp.detail = "Prescription required"
  /\ NeedsPrescription(CartOf(DB, resp.customer))
  /\ \E i \in 1..Len(prescriptions) :
       prescriptions[i].customer_id = resp.customer /\ prescriptions[i].status # "approved"

OwnedBy(id, c) == id \in 1..Len(orders) /\ orders[id].customer_id = c

\* C6: cancel_my_order answers 200 only for an order of the caller that is
\* pending or confirmed; for an order of the caller in any other status it
\* answers 400 and leaves every order and the inventory as they were; a second
\* cancel of the same order right after a successful one answers 400.
C6_CancelOnlyCancellable ==
  [][resp'.op = "cancel_my_order"
       => LET id == resp'.order_id
              c == resp'.customer
          IN  /\ resp'.code = 200
                   => OwnedBy(id, c) /\ orders[id].status \in {"pending", "confirmed"}
              /\ (OwnedBy(id, c) /\ orders[id].status \notin {"pending", "confirmed"})
                   => /\ resp'.code = 400
                      /\ orders' = orders
                      /\ inventory' = inventory
              /\ (resp.op = "cancel_my_order" /\ resp.code = 200
                  /\ resp.order_id = id /\ resp.customer = c)
                   => resp'.code = 400]_vars

\* C6 witness: a cancel was refused for a delivered order while the other
\* order stands cancelled by its customer.
C6_Witness ==
  /\ resp.op = "cancel_my_order" /\ resp.code = 400
  /\ OwnedBy(resp.order_id, resp.customer)
  /\ orders[resp.order_id].status = "delivered"
  /\ \E j \in 1..Len(orders) :
       orders[j].status = "cancelled" /\ orders[j].cancellation_reason # Null

\* C7: a successful cancel_my_order marks the order cancelled, adds each item's
\* quantity back to its product's stock and leaves that product with its first
\* batch available; when it directly follows the create_order of the same order,
\* every batch has the quantity_in_stock it had before the order.
C7_CancelRestoresInventory ==
  [][(resp'.op = "cancel_my_order" /\ resp'.code = 200)
       => LET id == resp'.order_id
              its == ItemsOf(order_items, id)
          IN  /\ orders'[id].status = "cancelled"
              /\ \A p \in ProductIds :
                   ProductStock(inventory', p) = ProductStock(inventory, p) + QuantityOf(its, p)
              /\ \A i \in 1..Len(its) :
                   inventory'[First({ key \in 1..Len(inventory') :
                                       inventory'[key].product_id = its[i].product_id })]
                     .is_available
              /\ (resp.op = "create_order" /\ resp.code = 201 /\ resp.order_id = id)
                   => Stock(inventory') = resp.stock_before]_vars

CompletedPayments(id) ==
  { i \in 1..Len(payments) : payments[i].order_id = id /\ payments[i].status = "completed" }

\* C8: no order ever has two completed payments, and a process_payment for an
\* order that has a completed payment answers 400 'Payment already completed
\* for this order' and records nothing.
C8_OneCompletedPayment ==
  /\ [](\A id \in 1..Len(orders) : Cardinality(CompletedPayments(id)) <= 1)
  /\ [][(resp'.op = "process_payment"
           /\ OwnedBy(resp'.order_id, resp'.customer)
           /\ orders[resp'.order_id].status # "cancelled"
           /\ CompletedPayments(resp'.order_id) # {})
          => /\ resp'.code = 400
             /\ resp'.detail = "Payment already completed for this order"
             /\ payments' = payments
             /\ orders' = orders]_vars

\* C8 witness: a payment was refused because the order is paid, after a failed
\* attempt and the completed one.
C8_Witness ==
  /\ resp.op = "process_payment" /\ resp.code = 400
  /\ resp.detail = "Payment already completed for this order"
  /\ \E i \in 1..Len(payments) :
       payments[i].order_id = resp.order_id /\ payments[i].status = "failed"

\* what process_payment does when it records a payment for order id
PaymentRecorded(id) ==
  /\ resp'.code = 200
  /\ Len(payments') = Len(payments) + 1
  /\ SubSeq(payments', 1, Len(payments)) = payments
  /\ LET pay == payments'[Len(payments')] IN
       /\ pay.order_id = id
       /\ pay.amount = orders[id].final_amount
       /\ pay.status \in {"completed", "failed"}
       /\ pay.status = "completed"
            => /\ pay.paid_at # Null
               /\ orders'[id].status = "confirmed"
       /\ pay.status = "failed"
            => /\ pay.paid_at = Null
               /\ orders' = orders

PaymentRefused ==
  /\ resp'.code = 400
  /\ payments' = payments
  /\ orders' = orders

\* C9 as claimed: process_payment for a cancelled order of the caller answers
\* 400 and records nothing; for any other order of the caller it records exactly
\* one payment of the order's final_amount, completed with paid_at set and the
\* order confirmed, or failed with paid_at empty and the order unchanged.
C9_EveryOtherOrderIsCharged ==
  [][(resp'.op = "process_payment" /\ OwnedBy(resp'.order_id, resp'.customer))
       => IF orders[resp'.order_id].status = "cancelled"
          THEN PaymentRefused
          ELSE PaymentRecorded(resp'.order_id)]_vars

\* C9 amended: as claimed, except that an order that is not cancelled and
\* already has a completed payment is refused with 400 and nothing is recorded.
C9_PaymentOutcomes ==
  [][(resp'.op = "process_payment" /\ OwnedBy(resp'.order_id, resp'.customer))
       => IF orders[resp'.order_id].status = "cancelled"
             \/ CompletedPayments(resp'.order_id) # {}
          THEN PaymentRefused
          ELSE PaymentRecorded(resp'.order_id)]_vars

\* C9 witness: a payment completed on the retry after a failed attempt.
C9_Witness ==
  /\ resp.op = "process_payment" /\ resp.code = 200
  /\ Len(payments) >= 2
  /\ payments[Len(payments)].status = "completed"
  /\ payments[Len(payments)].paid_at # Null
  /\ \E i \in 1..(Len(payments) - 1) :
       payments[i].order_id = resp.order_id /\ payments[i].status = "failed"
  /\ orders[resp.order_id].status = "confirmed"

RefundsOf(id) == { i \in 1..Len(refunds) : refunds[i].order_id = id }

\* C11 as claimed: no order ever has two refunds, and a request_refund by the
\* order's customer for an order that already has a refund answers 400 'Refund
\* already requested for this order' and persists nothing.
C11_SecondRequestNamesRefund ==
  /\ [](\A id \in 1..Len(orders) : Cardinality(RefundsOf(id)) <= 1)
  /\ [][(resp'.op = "request_refund"
           /\ OwnedBy(resp'.order_id, resp'.customer)
           /\ RefundsOf(resp'.order_id) # {})
          => /\ resp'.code = 400
             /\ resp'.detail = "Refund already requested for this order"
             /\ refunds' = refunds]_vars

\* C11 amended: no order ever has two refunds, and such a request answers 400
\* and persists nothing; the detail is 'Refund already requested for this
\* order' while the order is still eligible for a refund and 'Order is not
\* eligible for refund based on our policy' once it is not.
C11_OneRefundPerOrder ==
  /\ [](\A id \in 1..Len(orders) : Cardinality(RefundsOf(id)) <= 1)
  /\ [][(resp'.op = "request_refund"
           /\ OwnedBy(resp'.order_id, resp'.customer)
           /\ RefundsOf(resp'.order_id) # {})
          => /\ resp'.code = 400
             /\ resp'.detail =
                  IF is_refund_eligible(orders[resp'.order_id], now)
                  THEN "Refund already requested for this order"
                  ELSE "Order is not eligible for refund based on our policy"
             /\ refunds' = refunds]_vars

\* C11 witness: a second request for an order with a refund was refused while
\* the other order has a refund too.
C11_Witness ==
  /\ resp.op = "request_refund" /\ resp.code = 400
  /\ resp.detail = "Refund already requested for this order"
  /\ RefundsOf(resp.order_id) # {}
  /\ \E id \in 1..Len(orders) : id # resp.order_id /\ RefundsOf(id) # {}

\* the policy C12 states for an order at time t
ClaimedPolicy(order, t) ==
  IF order.status = "cancelled" THEN
    IF t - order.created_at < 3600 THEN "full"
    ELSE IF t - order.created_at < 24 * 3600 THEN "partial"
    ELSE "no refund"
  ELSE IF order.status = "returned" THEN
    IF t - (IF order.ready_at # Null THEN order.ready_at[1] ELSE order.created_at)
         <= 7 * 24 * 3600
    THEN "partial" ELSE "no refund"
  ELSE "no refund"

\* the amounts C12 states for a policy, in minor units: the partial amount is
\* final_amount less the fee percentage (hundredths of a percent, 10% when
\* empty) of it, to a minor unit on either side
ClaimedAmounts(order, policy) ==
  LET pct == IF order.cancellation_fee_percentage = Null THEN 1000
             ELSE order.cancellation_fee_percentage[1]
      exact == order.final_amount * (10000 - pct)
  IN  IF policy = "full" THEN {order.final_amount}
      ELSE IF policy = "partial" THEN {exact \div 10000, 0 - ((0 - exact) \div 10000)}
      ELSE {0}

RefundAsClaimed(order, t, policy, amount) ==
  /\ policy = ClaimedPolicy(order, t)
  /\ amount \in ClaimedAmounts(order, policy)
  /\ 0 <= amount /\ amount <= order.final_amount

\* C12: the policy is full for a cancelled order under 1 hour old, partial from
\* 1 hour to under 24 hours, no refund after; partial for a returned order
\* within 7 days of delivery, no refund after; no refund for any other status.
\* The amount is final_amount for full, final_amount less the cancellation fee
\* percentage of it for partial, 0 for no refund, and always between 0 and
\* final_amount; a refund request_refund persists carries that policy and amount.
C12_RefundPolicyAndAmount ==
  /\ [][resp'.op = "determine_refund"
          => /\ ~resp'.raises
             /\ RefundAsClaimed(orders[resp'.order_id], now,
                                resp'.refund_policy, resp'.amount)]_vars
  /\ [][(resp'.op = "request_refund" /\ refunds' # refunds)
          => LET refund == refunds'[Len(refunds')] IN
             RefundAsClaimed(orders[refund.order_id], now,
                             refund.refund_policy, refund.amount)]_vars

\* no table changes in the step
NoStateChange ==
  UNCHANGED << sessions, backup_vars, customers, cart_items, next_cart_item_id, inventory, orders, order_items,
               prescriptions, payments, refunds, notifications >>

\* the role of the user a token was issued to, "" if it names no user
RoleOf(token) ==
  IF token.valid /\ token.user_id # Null /\ token.role # Null
     /\ token.user_id[1] \in 1..Len(customers)
  THEN customers[token.user_id[1]].role ELSE ""

\* C13: a request to a customer-only endpoint with an admin's token answers 403,
\* a request to an admin endpoint with a customer's token answers 403, a request
\* whose token is invalid, lacks user_id or role, or names no existing user
\* answers 401; none of them changes any table.
C13_RoleSeparation ==
  [][/\ (resp'.router = "customer" /\ RoleOf(resp'.token) = "admin")
          => resp'.code = 403 /\ NoStateChange
     /\ (resp'.router = "admin" /\ RoleOf(resp'.token) = "customer")
          => resp'.code = 403 /\ NoStateChange
     /\ RoleOf(resp'.token) = ""
          => resp'.code = 401 /\ NoStateChange]_vars

\* C13 witness: the admin's token was refused on a customer endpoint after
\* customers paid, uploaded a prescription and filled a cart.
C13_Witness ==
  /\ resp.op = "cancel_my_order" /\ resp.code = 403
  /\ RoleOf(resp.token) = "admin"
  /\ payments # << >> /\ prescriptions # << >> /\ cart_items # << >>

\* the customer a record belongs to in the given tables, 0 if there is no such
\* record
OwnerIn(x, cart, ords, pays, refs, notes) ==
  LET id == x[2] IN
  IF x[1] = "cart" THEN
    LET k == First({ key \in 1..Len(cart) : cart[key].cart_item_id = id })
    IN  IF k = 0 THEN 0 ELSE cart[k].customer_id
  ELSE IF x[1] = "order" THEN
    IF id \in 1..Len(ords) THEN ords[id].customer_id ELSE 0
  ELSE IF x[1] = "payment" THEN
    IF id \in 1..Len(pays) THEN ords[pays[id].order_id].customer_id ELSE 0
  ELSE IF x[1] = "refund" THEN
    IF id \in 1..Len(refs) THEN ords[refs[id].order_id].customer_id ELSE 0
  ELSE
    LET k == First({ key \in 1..Len(notes) : notes[key].notification_id = id })
    IN  IF k = 0 THEN 0 ELSE notes[k].recipient_customer_id

\* the records of customer b in the given tables
RecordsIn(b, cart, ords, pays, refs, notes) ==
  [cart |-> SelectSeq(cart, LAMBDA r : r.customer_id = b),
   orders |-> [i \in { j \in 1..Len(ords) : ords[j].customer_id = b } |-> ords[i]],
   payments |-> [i \in { j \in 1..Len(pays) : ords[pays[j].order_id].customer_id = b }
                   |-> pays[i]],
   refunds |-> [i \in { j \in 1..Len(refs) : ords[refs[j].order_id].customer_id = b }
                  |-> refs[i]],
   notifications |-> SelectSeq(notes, LAMBDA r : r.recipient_customer_id = b)]

\* C14: a request of customer A changes no cart item, order, payment, refund or
\* notification of any other customer B and its response shows none of them; a
\* request that names a record of B answers 404.
C14_CustomerIsolation ==
  [][resp'.customer \in Customers
       => /\ \A b \in Customers \ {resp'.customer} :
               RecordsIn(b, cart_items', orders', payments', refunds', notifications')
                 = RecordsIn(b, cart_items, orders, payments, refunds, notifications)
          /\ OwnerIn(resp'.named, cart_items, orders, payments, refunds, notifications)
                \in Customers \ {resp'.customer}
               => resp'.code = 404
          /\ \A x \in resp'.rows :
               OwnerIn(x, cart_items', orders', payments', refunds', notifications')
                 = resp'.customer]_vars

\* C14 witness: a customer asked for another customer's payment and got 404,
\* while that customer's order is confirmed and the caller's own is cancelled.
C14_Witness ==
  /\ resp.op = "get_payment_details" /\ resp.code = 404
  /\ OwnerIn(resp.named, cart_items, orders, payments, refunds, notifications)
       \in Customers \ {resp.customer}
  /\ \E i \in 1..Len(orders) :
       orders[i].customer_id = resp.customer /\ orders[i].status = "cancelled"

\* C15: register with an email that belongs to a customer answers 400 'Email
\* already registered' and creates no record; an account register creates has
\* the requested email and the role customer whatever the body says; no two
\* customers ever share an email.
C15_Registration ==
  /\ [][resp'.op = "register"
          => /\ (\E i \in 1..Len(customers) : customers[i].email = resp'.email)
                  => /\ resp'.code = 400
                     /\ resp'.detail = "Email already registered"
                     /\ customers' = customers
             /\ customers' # customers
                  => /\ Len(customers') = Len(customers) + 1
                     /\ SubSeq(customers', 1, Len(customers)) = customers
                     /\ customers'[Len(customers')].email = resp'.email
                     /\ customers'[Len(customers')].role = "customer"]_vars
  /\ [](\A i, j \in 1..Len(customers) :
          customers[i].email = customers[j].email => i = j)

\* C15 witness: a registration was refused for the email of an account that
\* an earlier register created from a body asking for the admin role.
C15_Witness ==
  /\ resp.op = "register" /\ resp.code = 400 /\ resp.body_role = "admin"
  /\ \E i \in (Len(InitialCustomers) + 1)..Len(customers) :
       customers[i].email = resp.email /\ customers[i].role = "customer"

\* C16: restore_backup for a path at which no backup file exists answers 404
\* with detail 'Backup file not found' and records no Restore row.
C16_RestoreMissingFile ==
  [][(resp'.op = "restore_backup" /\ resp'.path \notin files)
       => /\ resp'.code = 404
          /\ resp'.detail = "Backup file not found"
          /\ restores' = restores]_vars

\* C17: a request_refund that passes its checks persists the refund with
\* status pending, creates one 'Refund Update' notification addressed to the
\* order's customer and linked to the order, and answers success; a
\* request_refund that answers an error has persisted no refund.
C17_RefundThenNotification ==
  [][resp'.op = "request_refund"
       => IF resp'.code = 200
          THEN /\ Len(refunds') = Len(refunds) + 1
               /\ refunds'[Len(refunds')].order_id = resp'.order_id
               /\ refunds'[Len(refunds')].status = "pending"
               /\ Len(notifications') = Len(notifications) + 1
               /\ LET n == notifications'[Len(notifications')] IN
                    /\ n.title = "Refund Update"
                    /\ n.recipient_customer_id = orders[resp'.order_id].customer_id
                    /\ n.order_id = resp'.order_id
          ELSE refunds' = refunds]_vars

\* the quantity of a product in the items of the created orders
Sold(product_id) ==
  SumSeq([i \in 1..Len(order_items) |->
            IF order_items[i].product_id = product_id THEN order_items[i].quantity ELSE 0])

\* C18: when create_order requests of different customers for the same
\* product run concurrently, the quantities of the created orders never exceed
\* the batch's stock before the requests, and the stock afterwards is the
\* stock before minus the quantities of the created orders.  No order exists
\* before the requests, so this is: every step keeps stock plus sold quantity
\* unchanged, and the stock never goes below zero.
C18_NoLostUpdateNoOversell ==
  /\ [](inventory[1].quantity_in_stock >= 0)
  /\ [][inventory'[1].quantity_in_stock + Sold(1)' = inventory[1].quantity_in_stock + Sold(1)]_vars

\* C19: when process_payment requests for the same order run concurrently,
\* both reading the payments before either commits, at most one payment with
\* status completed is recorded for the order.
C19_OneCompletedPaymentUnderRace ==
  \A id \in 1..Len(orders) :
    (\A r \in Requests : sessions[r].pc = "done" /\ sessions[r].order_id = id)
      => Cardinality({ i \in 1..Len(payments) :
                        payments[i].order_id = id /\ payments[i].status = "completed" }) <= 1

====
